---- MODULE Spec2Model ----
(***************************************************************************)
(* backlight-dbus: main() of backlight-dbus.c as a state machine.  One     *)
(* process runs main; the environment delivers SIGHUP/SIGINT/SIGTERM, lets *)
(* the monotonic clock advance and decides whether a D-Bus call succeeds.  *)
(***************************************************************************)
EXTENDS Integers, Sequences, FiniteSets, TLC

VARIABLES
    pc,                \* position of main
    brightness_str,    \* argv brightness argument (sequence of characters) or NoArg
    countdown_str,     \* argv -t argument
    orig_brightness, cur_brightness, max_brightness, target_brightness,
    total_millis, start_time, current_time, target_time,
    status,            \* main's int status
    received_signal,   \* static volatile sig_atomic_t received_signal
    armed,             \* the handlers of setup_signal_handler are installed
    sig_blocked,       \* signals_to_catch_set is in the process signal mask
    sig_pending,       \* a caught signal is pending (raised while blocked)
    sb_site,           \* which call of set_brightness is running
    sb_arg,            \* its brightness argument
    sb_ret,            \* its return value
    commits,           \* history: the SetBrightness calls sent to the sink, each
                       \* with its call site, the flag when it was sent and
                       \* the result of the call
    printed,           \* history: the values line 353 printed, <<>> before
    nsignals,          \* history: number of signals raised so far
    flag_before_check, \* history: the flag was raised before line 451 read it
    exit_status        \* the value main returned

vars == <<pc, brightness_str, countdown_str, orig_brightness, cur_brightness,
          max_brightness, target_brightness, total_millis, start_time,
          current_time, target_time, status, received_signal, armed,
          sig_blocked, sig_pending, sb_site, sb_arg, sb_ret, commits, printed,
          nsignals, flag_before_check, exit_status>>

----------------------------------------------------------------------------
(* Program constants *)
NANOSEC_PER_SEC == 1000000000
NANOSEC_PER_MILLISEC == 1000000
MILLISEC_PER_SEC == 1000
SLEEP_MILLIS == 100
EXIT_SUCCESS == 0
EXIT_FAILURE == 1

(* Bounds of the model *)
MaxBrightness == 4         \* max_brightness of the device
MaxCountdownMillis == 3    \* longest countdown, in milliseconds
MaxSignals == 2            \* signals the environment raises in one run

----------------------------------------------------------------------------
(* C integer division truncates toward zero; \div floors. *)
CDiv(a, b) ==
    IF (a >= 0) = (b > 0) \/ a = 0
    THEN (IF a >= 0 THEN a \div b ELSE (-a) \div (-b))
    ELSE -((IF a >= 0 THEN a ELSE -a) \div (IF b >= 0 THEN b ELSE -b))

(* C remainder has the sign of the dividend. *)
CMod(a, b) == a - b * CDiv(a, b)

Last(s) == s[Len(s)]

----------------------------------------------------------------------------
(* Strings are sequences of one-character strings; NUL is the terminator   *)
(* read at and past the end.                                               *)
NUL == "\\0"
DigitChars == <<"0", "1", "2", "3", "4", "5", "6", "7", "8", "9">>
CharAt(s, i) == IF i >= 1 /\ i <= Len(s) THEN s[i] ELSE NUL
isdigit(c) == \E d \in 1..10 : DigitChars[d] = c
DigitVal(c) == (CHOOSE d \in 1..10 : DigitChars[d] = c) - 1
isspace(c) == c \in {" ", "\t", "\n"}

RECURSIVE SkipSpaces(_, _)
SkipSpaces(s, i) == IF isspace(CharAt(s, i)) THEN SkipSpaces(s, i + 1) ELSE i

RECURSIVE DigitsEnd(_, _)
DigitsEnd(s, i) == IF isdigit(CharAt(s, i)) THEN DigitsEnd(s, i + 1) ELSE i

RECURSIVE DigitsValue(_, _, _)
DigitsValue(s, i, j) ==
    IF j < i THEN 0 ELSE 10 * DigitsValue(s, i, j - 1) + DigitVal(s[j])

(* strtol(s, &endptr, 10): leading white space, an optional sign, decimal  *)
(* digits.  val is the result, end is endptr - s (0 when nothing converts).*)
strtol(s) ==
    LET i == SkipSpaces(s, 1)
        signed == CharAt(s, i) \in {"+", "-"}
        j == IF signed THEN i + 1 ELSE i
        k == DigitsEnd(s, j)
        mag == DigitsValue(s, j, k - 1)
    IN  IF k = j THEN [val |-> 0, end |-> 0]
        ELSE [val |-> IF CharAt(s, i) = "-" THEN -mag ELSE mag, end |-> k - 1]

(* calculate_target_brightness taking the percentage of the current        *)
(* brightness instead of the maximum.                                      *)
calculate_target_brightness_PercentOfCurrent(str, cur, max, before) ==
    LET len0 == Len(str)
        has_prefix == CharAt(str, 1) \in {"-", "+"}
        prefix == IF has_prefix THEN str[1] ELSE NUL
        s == IF has_prefix THEN Tail(str) ELSE str
        len1 == IF has_prefix THEN len0 - 1 ELSE len0
        lastc == IF len1 >= 1 THEN s[len1]
                 ELSE IF has_prefix THEN prefix ELSE before
        has_percent == lastc = "%"
        len == IF has_percent THEN len1 - 1 ELSE len1
        conv == strtol(s)
        scaled == IF has_percent THEN CDiv(cur * conv.val, 100) ELSE conv.val
        brightness == IF prefix = "-" THEN cur - scaled
                      ELSE IF prefix = "+" THEN cur + scaled
                      ELSE scaled
    IN  IF len = 0 \/ conv.end # len \/ isspace(CharAt(s, 1))
        THEN [ret |-> -1, res |-> 0]
        ELSE IF brightness > max
        THEN [ret |-> -1, res |-> 0]
        ELSE [ret |-> 0, res |-> brightness]

(* calculate_target_brightness subtracting the wrong way round. *)
calculate_target_brightness_MinusReversed(str, cur, max, before) ==
    LET len0 == Len(str)
        has_prefix == CharAt(str, 1) \in {"-", "+"}
        prefix == IF has_prefix THEN str[1] ELSE NUL
        s == IF has_prefix THEN Tail(str) ELSE str
        len1 == IF has_prefix THEN len0 - 1 ELSE len0
        lastc == IF len1 >= 1 THEN s[len1]
                 ELSE IF has_prefix THEN prefix ELSE before
        has_percent == lastc = "%"
        len == IF has_percent THEN len1 - 1 ELSE len1
        conv == strtol(s)
        scaled == IF has_percent THEN CDiv(max * conv.val, 100) ELSE conv.val
        brightness == IF prefix = "-" THEN scaled - cur
                      ELSE IF prefix = "+" THEN cur + scaled
                      ELSE scaled
    IN  IF len = 0 \/ conv.end # len \/ isspace(CharAt(s, 1))
        THEN [ret |-> -1, res |-> 0]
        ELSE IF brightness > max
        THEN [ret |-> -1, res |-> 0]
        ELSE [ret |-> 0, res |-> brightness]

(* calculate_target_brightness.  before is the byte at brightness_str[-1], *)
(* which the code reads when the argument is the empty string.  ret is the *)
(* return value and res the value stored in *res when ret = 0.             *)
calculate_target_brightness(str, cur, max, before) ==
    LET len0 == Len(str)
        has_prefix == CharAt(str, 1) \in {"-", "+"}
        prefix == IF has_prefix THEN str[1] ELSE NUL
        s == IF has_prefix THEN Tail(str) ELSE str
        len1 == IF has_prefix THEN len0 - 1 ELSE len0
        lastc == IF len1 >= 1 THEN s[len1]
                 ELSE IF has_prefix THEN prefix ELSE before
        has_percent == lastc = "%"
        len == IF has_percent THEN len1 - 1 ELSE len1
        conv == strtol(s)
        scaled == IF has_percent THEN CDiv(max * conv.val, 100) ELSE conv.val
        brightness == IF prefix = "-" THEN cur - scaled
                      ELSE IF prefix = "+" THEN cur + scaled
                      ELSE scaled
    IN  IF len = 0 \/ conv.end # len \/ isspace(CharAt(s, 1))
        THEN [ret |-> -1, res |-> 0]
        ELSE IF brightness > max
        THEN [ret |-> -1, res |-> 0]
        ELSE [ret |-> 0, res |-> brightness]

(* read_countdown.  A countdown argument is absent, malformed, or a float  *)
(* literal, held here as its value in nanoseconds.                         *)
read_countdown(s) ==
    IF s.kind = "null" THEN [ret |-> 0, res |-> 0]
    ELSE IF s.kind = "malformed" \/ s.ns < 0 THEN [ret |-> -1, res |-> 0]
    ELSE [ret |-> 0, res |-> s.ns]

add_nanoseconds_to_timespec(in_ts, nanosecs) ==
    LET nsec == in_ts.tv_nsec + nanosecs
    IN  [tv_sec |-> in_ts.tv_sec + CDiv(nsec, NANOSEC_PER_SEC),
         tv_nsec |-> CMod(nsec, NANOSEC_PER_SEC)]

timespec_cmp(a, b) ==
    IF a.tv_sec < b.tv_sec THEN -1
    ELSE IF a.tv_sec > b.tv_sec THEN 1
    ELSE IF a.tv_nsec < b.tv_nsec THEN -1
    ELSE IF a.tv_nsec > b.tv_nsec THEN 1
    ELSE 0

(* timespec_diff_in_millis with its operands the wrong way round. *)
timespec_diff_in_millis_Swapped(a, b) ==
    LET sec_diff == b.tv_sec - a.tv_sec
        nsec_diff == b.tv_nsec - a.tv_nsec
    IN  sec_diff * MILLISEC_PER_SEC + CDiv(nsec_diff, NANOSEC_PER_MILLISEC)

timespec_diff_in_millis(a, b) ==
    LET sec_diff == a.tv_sec - b.tv_sec
        nsec_diff == a.tv_nsec - b.tv_nsec
    IN  sec_diff * MILLISEC_PER_SEC + CDiv(nsec_diff, NANOSEC_PER_MILLISEC)

(* struct timespec delay_ts of main *)
delay_ts == [tv_sec |-> 0, tv_nsec |-> SLEEP_MILLIS * 1000]

(* Line 440: the next brightness of the fade. *)
next_brightness(orig, millis_elapsed, total) ==
    orig - CDiv(millis_elapsed * orig, total)

----------------------------------------------------------------------------
(* Inputs of a run *)
NoArg == [given |-> FALSE, chars |-> <<>>]
Arg(chars) == [given |-> TRUE, chars |-> chars]

BrightnessArgs ==
    {NoArg, Arg(<<>>), Arg(<<"x">>), Arg(<<"9">>),
     Arg(<<"0">>), Arg(<<"2">>), Arg(<<"-", "1">>), Arg(<<"+", "1">>),
     Arg(<<"5", "0", "%">>), Arg(<<"1", "0", "0", "%">>)}

(* What the byte before an empty argument can hold. *)
PrecedingBytes == {NUL, "%"}

CountdownArgs ==
    {[kind |-> "null"], [kind |-> "malformed"],
     [kind |-> "float", ns |-> -NANOSEC_PER_MILLISEC],
     [kind |-> "float", ns |-> 0],
     [kind |-> "float", ns |-> NANOSEC_PER_MILLISEC \div 2]}
    \cup {[kind |-> "float", ns |-> k * NANOSEC_PER_MILLISEC] :
            k \in 1..MaxCountdownMillis}

(* CLOCK_BOOTTIME readings at line 371 *)
StartTimes == {[tv_sec |-> 7, tv_nsec |-> 0],
               [tv_sec |-> 7, tv_nsec |-> 999600000]}

(* Time between two readings of the clock around a nanosleep that ran to   *)
(* completion: the requested delay plus scheduling latency.                *)
SleepLatencies == {4 * delay_ts.tv_nsec, 9 * delay_ts.tv_nsec}
(* ... and around a nanosleep a signal cut short. *)
InterruptedLatencies == {0, 5 * delay_ts.tv_nsec}

ZeroTime == [tv_sec |-> 0, tv_nsec |-> 0]

Init ==
    /\ pc = "check_arg"
    /\ brightness_str \in BrightnessArgs
    /\ countdown_str \in CountdownArgs
    /\ max_brightness = MaxBrightness
    /\ cur_brightness \in 0..MaxBrightness
    /\ orig_brightness = cur_brightness
    /\ target_brightness = 0
    /\ total_millis = 0
    /\ start_time = ZeroTime
    /\ current_time = ZeroTime
    /\ target_time = ZeroTime
    /\ status = 0
    /\ received_signal = FALSE
    /\ armed = FALSE
    /\ sig_blocked = FALSE
    /\ sig_pending = FALSE
    /\ sb_site = "none"
    /\ sb_arg = 0
    /\ sb_ret = 0
    /\ commits = <<>>
    /\ printed = <<>>
    /\ nsignals = 0
    /\ flag_before_check = FALSE
    /\ exit_status = -1

inputVars == <<brightness_str, countdown_str, orig_brightness, max_brightness>>
timeVars == <<total_millis, start_time, current_time, target_time>>
sigVars == <<received_signal, armed, sig_blocked, sig_pending, nsignals,
             flag_before_check>>
sbVars == <<sb_site, sb_arg, sb_ret>>

(* CheckArg that prints and then goes on (goto finish left out). *)
CheckArg_FallThrough ==
    /\ pc = "check_arg"
    /\ printed' = IF ~brightness_str.given
                  THEN <<cur_brightness, max_brightness>> ELSE printed
    /\ pc' = "calculate"
    /\ UNCHANGED <<inputVars, timeVars, sigVars, sbVars, cur_brightness,
                   target_brightness, status, commits, exit_status>>

(* Lines 351-355: no brightness argument, print the values and finish. *)
CheckArg ==
    /\ pc = "check_arg"
    /\ IF ~brightness_str.given
       THEN printed' = <<cur_brightness, max_brightness>> /\ pc' = "finish"
       ELSE printed' = printed /\ pc' = "calculate"
    /\ UNCHANGED <<inputVars, timeVars, sigVars, sbVars, cur_brightness,
                   target_brightness, status, commits, exit_status>>

(* Lines 358-362 *)
Calculate ==
    /\ pc = "calculate"
    /\ \E before \in PrecedingBytes :
         LET r == calculate_target_brightness(brightness_str.chars,
                      cur_brightness, max_brightness, before)
         IN  /\ status' = r.ret
             /\ IF r.ret < 0
                THEN target_brightness' = target_brightness /\ pc' = "finish"
                ELSE target_brightness' = r.res /\ pc' = "countdown"
    /\ UNCHANGED <<inputVars, timeVars, sigVars, sbVars, cur_brightness,
                   commits, printed, exit_status>>

(* Lines 366-375 *)
Countdown ==
    /\ pc = "countdown"
    /\ LET r == read_countdown(countdown_str)
       IN  /\ status' = r.ret
           /\ IF r.ret < 0
              THEN /\ pc' = "finish"
                   /\ UNCHANGED timeVars
              ELSE /\ total_millis' = CDiv(r.res, NANOSEC_PER_MILLISEC)
                   /\ \E now \in StartTimes :
                        /\ current_time' = now
                        /\ target_time' = add_nanoseconds_to_timespec(now, r.res)
                   /\ start_time' = start_time
                   /\ pc' = "connect"
    /\ UNCHANGED <<inputVars, sigVars, sbVars, cur_brightness,
                   target_brightness, commits, printed, exit_status>>

(* Lines 378-416: open the bus, resolve the session, read its object path. *)
(* Each of these calls can fail, which ends the run.                       *)
Connect ==
    /\ pc = "connect"
    /\ \E ok \in BOOLEAN :
         IF ok THEN status' = 0 /\ pc' = "setup_signals"
               ELSE status' = -1 /\ pc' = "finish"
    /\ UNCHANGED <<inputVars, timeVars, sigVars, sbVars, cur_brightness,
                   target_brightness, commits, printed, exit_status>>

(* Lines 419-426 *)
SetupSignals ==
    /\ pc = "setup_signals"
    /\ armed' = TRUE
    /\ status' = 0
    /\ start_time' = current_time
    /\ pc' = "loop_cond"
    /\ UNCHANGED <<inputVars, total_millis, current_time, target_time,
                   received_signal, sig_blocked, sig_pending, nsignals,
                   flag_before_check, sbVars, cur_brightness,
                   target_brightness, commits, printed, exit_status>>

----------------------------------------------------------------------------
(* Signals *)
SbPcs == {"sb_block", "sb_call", "sb_unblock", "sb_return"}

(* main is past the read of received_signal at line 451. *)
PastCheck ==
    \/ pc \in {"finish", "exited"}
    \/ pc \in SbPcs /\ sb_site \in {"restore", "final"}

(* signal_handler, lines 37-39 *)
signal_handler ==
    /\ received_signal' = TRUE
    /\ flag_before_check' = (flag_before_check \/ ~PastCheck)

(* The environment raises SIGHUP, SIGINT or SIGTERM while main is between  *)
(* two steps: the handler runs at once unless the signals are blocked, and *)
(* then the signal stays pending.                                          *)
Signal ==
    /\ armed
    /\ pc # "exited"
    /\ nsignals < MaxSignals
    /\ nsignals' = nsignals + 1
    /\ IF sig_blocked
       THEN sig_pending' = TRUE /\ UNCHANGED <<received_signal, flag_before_check>>
       ELSE signal_handler /\ sig_pending' = sig_pending
    /\ UNCHANGED <<pc, inputVars, timeVars, armed, sig_blocked, sbVars,
                   cur_brightness, target_brightness, status, commits,
                   printed, exit_status>>

----------------------------------------------------------------------------
(* The fade loop *)

(* LoopCond with <= for <: the loop is entered when no time is left. *)
LoopCond_Inclusive ==
    /\ pc = "loop_cond"
    /\ IF ~received_signal /\ timespec_cmp(current_time, target_time) <= 0
       THEN pc' = "nanosleep"
       ELSE pc' = "post_loop"
    /\ UNCHANGED <<inputVars, timeVars, sigVars, sbVars, cur_brightness,
                   target_brightness, status, commits, printed, exit_status>>

(* Line 427: the loop condition. *)
LoopCond ==
    /\ pc = "loop_cond"
    /\ IF ~received_signal /\ timespec_cmp(current_time, target_time) < 0
       THEN pc' = "nanosleep"
       ELSE pc' = "post_loop"
    /\ UNCHANGED <<inputVars, timeVars, sigVars, sbVars, cur_brightness,
                   target_brightness, status, commits, printed, exit_status>>

(* Line 428: nanosleep sleeps for the whole delay and returns 0. *)
NanosleepComplete ==
    /\ pc = "nanosleep"
    /\ status' = 0
    /\ pc' = "clock_gettime"
    /\ UNCHANGED <<inputVars, timeVars, sigVars, sbVars, cur_brightness,
                   target_brightness, commits, printed, exit_status>>

(* Line 428: a signal arrives during the sleep; its handler runs and       *)
(* nanosleep returns -1 (EINTR).                                           *)
NanosleepInterrupted ==
    /\ pc = "nanosleep"
    /\ nsignals < MaxSignals
    /\ nsignals' = nsignals + 1
    /\ signal_handler
    /\ status' = -1
    /\ pc' = "clock_gettime"
    /\ UNCHANGED <<inputVars, timeVars, armed, sig_blocked, sig_pending,
                   sbVars, cur_brightness, target_brightness, commits, printed,
                   exit_status>>

(* Line 429 *)
ClockGettime ==
    /\ pc = "clock_gettime"
    /\ \E adv \in IF status < 0 THEN InterruptedLatencies
                  ELSE {delay_ts.tv_nsec + l : l \in SleepLatencies} :
         current_time' = add_nanoseconds_to_timespec(current_time, adv)
    /\ pc' = "check_status"
    /\ UNCHANGED <<inputVars, total_millis, start_time, target_time, sigVars,
                   sbVars, cur_brightness, target_brightness, status, commits,
                   printed, exit_status>>

(* Lines 430-435 *)
CheckStatus ==
    /\ pc = "check_status"
    /\ pc' = IF status < 0 THEN "post_loop" ELSE "interpolate"
    /\ UNCHANGED <<inputVars, timeVars, sigVars, sbVars, cur_brightness,
                   target_brightness, status, commits, printed, exit_status>>

(* Interpolate that commits every step, changed or not. *)
Interpolate_AlwaysCommit ==
    /\ pc = "interpolate"
    /\ LET millis_elapsed == timespec_diff_in_millis(current_time, start_time)
       IN  IF millis_elapsed >= total_millis
           THEN pc' = "post_loop" /\ UNCHANGED sbVars
           ELSE /\ sb_site' = "fade"
                /\ sb_arg' = next_brightness(orig_brightness, millis_elapsed,
                                             total_millis)
                /\ sb_ret' = sb_ret
                /\ pc' = "sb_block"
    /\ UNCHANGED <<inputVars, timeVars, sigVars, cur_brightness,
                   target_brightness, status, commits, printed, exit_status>>

(* Lines 436-443: the next step of the fade, and the call that commits it. *)
Interpolate ==
    /\ pc = "interpolate"
    /\ LET millis_elapsed == timespec_diff_in_millis(current_time, start_time)
       IN  IF millis_elapsed >= total_millis
           THEN pc' = "post_loop" /\ UNCHANGED sbVars
           ELSE LET next == next_brightness(orig_brightness, millis_elapsed,
                                            total_millis)
                IN  IF next # cur_brightness
                    THEN /\ sb_site' = "fade"
                         /\ sb_arg' = next
                         /\ sb_ret' = sb_ret
                         /\ pc' = "sb_block"
                    ELSE pc' = "loop_cond" /\ UNCHANGED sbVars
    /\ UNCHANGED <<inputVars, timeVars, sigVars, cur_brightness,
                   target_brightness, status, commits, printed, exit_status>>

(* PostLoop without the restoration after a signal. *)
PostLoop_NoRestore ==
    /\ pc = "post_loop"
    /\ IF received_signal
       THEN pc' = "finish" /\ UNCHANGED sbVars
       ELSE IF cur_brightness # target_brightness
            THEN /\ sb_site' = "final"
                 /\ sb_arg' = target_brightness
                 /\ sb_ret' = sb_ret
                 /\ pc' = "sb_block"
            ELSE pc' = "finish" /\ UNCHANGED sbVars
    /\ UNCHANGED <<inputVars, timeVars, sigVars, cur_brightness,
                   target_brightness, status, commits, printed, exit_status>>

(* PostLoop without the last step to the target. *)
PostLoop_NoFinalStep ==
    /\ pc = "post_loop"
    /\ IF received_signal /\ cur_brightness # orig_brightness
       THEN /\ sb_site' = "restore"
            /\ sb_arg' = orig_brightness
            /\ sb_ret' = sb_ret
            /\ pc' = "sb_block"
       ELSE pc' = "finish" /\ UNCHANGED sbVars
    /\ UNCHANGED <<inputVars, timeVars, sigVars, cur_brightness,
                   target_brightness, status, commits, printed, exit_status>>

(* Lines 451-467: restore the original brightness after a signal, or take  *)
(* the last step to the target.                                            *)
PostLoop ==
    /\ pc = "post_loop"
    /\ IF received_signal
       THEN IF cur_brightness # orig_brightness
            THEN /\ sb_site' = "restore"
                 /\ sb_arg' = orig_brightness
                 /\ sb_ret' = sb_ret
                 /\ pc' = "sb_block"
            ELSE pc' = "finish" /\ UNCHANGED sbVars
       ELSE IF cur_brightness # target_brightness
            THEN /\ sb_site' = "final"
                 /\ sb_arg' = target_brightness
                 /\ sb_ret' = sb_ret
                 /\ pc' = "sb_block"
            ELSE pc' = "finish" /\ UNCHANGED sbVars
    /\ UNCHANGED <<inputVars, timeVars, sigVars, cur_brightness,
                   target_brightness, status, commits, printed, exit_status>>

----------------------------------------------------------------------------
(* set_brightness, lines 240-263 *)

(* block_signals that leaves the signal mask as it is. *)
block_signals_NoMask ==
    /\ pc = "sb_block"
    /\ pc' = "sb_call"
    /\ UNCHANGED <<inputVars, timeVars, sigVars, sbVars, cur_brightness,
                   target_brightness, status, commits, printed, exit_status>>

(* block_signals, lines 224-230, called at line 249 *)
block_signals ==
    /\ pc = "sb_block"
    /\ sig_blocked' = TRUE
    /\ pc' = "sb_call"
    /\ UNCHANGED <<inputVars, timeVars, received_signal, armed, sig_pending,
                   nsignals, flag_before_check, sbVars, cur_brightness,
                   target_brightness, status, commits, printed, exit_status>>

(* Lines 250-260: the SetBrightness method call; the sink accepts it or    *)
(* answers with an error.                                                  *)
BusCall ==
    /\ pc = "sb_call"
    /\ \E ret \in {-1, 1} :
         /\ sb_ret' = ret
         /\ commits' = Append(commits,
                [brightness |-> sb_arg, site |-> sb_site,
                 flagged |-> received_signal, ret |-> ret])
    /\ pc' = "sb_unblock"
    /\ UNCHANGED <<inputVars, timeVars, sigVars, sb_site, sb_arg,
                   cur_brightness, target_brightness, status, printed,
                   exit_status>>

(* unblock_signals, lines 232-238, called at line 261: a pending signal is *)
(* delivered before sigprocmask returns.                                   *)
unblock_signals ==
    /\ pc = "sb_unblock"
    /\ sig_blocked' = FALSE
    /\ IF sig_pending
       THEN signal_handler /\ sig_pending' = FALSE
       ELSE UNCHANGED <<received_signal, flag_before_check, sig_pending>>
    /\ pc' = "sb_return"
    /\ UNCHANGED <<inputVars, timeVars, armed, nsignals, sbVars,
                   cur_brightness, target_brightness, status, commits, printed,
                   exit_status>>

(* SetBrightnessReturn that does not record the committed value in         *)
(* cur_brightness (line 447 left out).                                     *)
SetBrightnessReturn_StaleCur ==
    /\ pc = "sb_return"
    /\ status' = sb_ret
    /\ pc' = IF sb_ret < 0 THEN "finish"
             ELSE IF sb_site = "fade" THEN "loop_cond" ELSE "finish"
    /\ UNCHANGED <<inputVars, timeVars, sigVars, sbVars, cur_brightness,
                   target_brightness, commits, printed, exit_status>>

(* SetBrightnessReturn that goes on after a failed call. *)
SetBrightnessReturn_IgnoreError ==
    /\ pc = "sb_return"
    /\ status' = sb_ret
    /\ IF sb_site = "fade"
       THEN pc' = "loop_cond" /\ cur_brightness' = sb_arg
       ELSE pc' = "finish" /\ cur_brightness' = cur_brightness
    /\ UNCHANGED <<inputVars, timeVars, sigVars, sbVars, target_brightness,
                   commits, printed, exit_status>>

(* Line 262 and the caller's handling of the result: lines 444-447,        *)
(* 456-458 and 464-466.                                                    *)
SetBrightnessReturn ==
    /\ pc = "sb_return"
    /\ status' = sb_ret
    /\ IF sb_ret < 0
       THEN pc' = "finish" /\ cur_brightness' = cur_brightness
       ELSE IF sb_site = "fade"
            THEN pc' = "loop_cond" /\ cur_brightness' = sb_arg
            ELSE pc' = "finish" /\ cur_brightness' = cur_brightness
    /\ UNCHANGED <<inputVars, timeVars, sigVars, sbVars, target_brightness,
                   commits, printed, exit_status>>

(* Lines 482-487 *)
Finish ==
    /\ pc = "finish"
    /\ exit_status' = IF status < 0 THEN EXIT_FAILURE ELSE EXIT_SUCCESS
    /\ pc' = "exited"
    /\ UNCHANGED <<inputVars, timeVars, sigVars, sbVars, cur_brightness,
                   target_brightness, status, commits, printed>>

Next ==
    \/ CheckArg
    \/ Calculate
    \/ Countdown
    \/ Connect
    \/ SetupSignals
    \/ Signal
    \/ LoopCond
    \/ NanosleepComplete
    \/ NanosleepInterrupted
    \/ ClockGettime
    \/ CheckStatus
    \/ Interpolate
    \/ PostLoop
    \/ block_signals
    \/ BusCall
    \/ unblock_signals
    \/ SetBrightnessReturn
    \/ Finish

Spec == Init /\ [][Next]_vars

(* The process takes its next step as long as it has one. *)
FairSpec == Spec /\ WF_vars(Next)

----------------------------------------------------------------------------
(* calculate_target_brightness on its own: main stands at line 358 with    *)
(* any argument string over a small alphabet, any percentage and any       *)
(* signed delta, and takes the one step of lines 358-362.                  *)
MaxStrLen == 3             \* longest arbitrary argument string

Alphabet == {"+", "-", "%", "0", "5", " ", "x"}
Strings(n) == UNION {[1..k -> Alphabet] : k \in 0..n}

RECURSIVE Decimal(_)
Decimal(n) ==
    IF n < 10 THEN <<DigitChars[n + 1]>>
    ELSE Append(Decimal(n \div 10), DigitChars[(n % 10) + 1])

PercentStr(p) == Append(Decimal(p), "%")
PlusStr(d) == <<"+">> \o Decimal(d)
MinusStr(d) == <<"-">> \o Decimal(d)

CalcStrings ==
    Strings(MaxStrLen)
        \cup {PercentStr(p) : p \in 0..100}
        \cup {PlusStr(d) : d \in 0..MaxBrightness}
        \cup {MinusStr(d) : d \in 0..MaxBrightness}

CalcInit ==
    /\ pc = "calculate"
    /\ brightness_str \in {Arg(s) : s \in CalcStrings}
    /\ countdown_str = [kind |-> "null"]
    /\ max_brightness \in 1..MaxBrightness
    /\ cur_brightness \in 0..max_brightness
    /\ orig_brightness = cur_brightness
    /\ target_brightness = 0
    /\ total_millis = 0
    /\ start_time = ZeroTime
    /\ current_time = ZeroTime
    /\ target_time = ZeroTime
    /\ status = 0
    /\ received_signal = FALSE
    /\ armed = FALSE
    /\ sig_blocked = FALSE
    /\ sig_pending = FALSE
    /\ sb_site = "none"
    /\ sb_arg = 0
    /\ sb_ret = 0
    /\ commits = <<>>
    /\ printed = <<>>
    /\ nsignals = 0
    /\ flag_before_check = FALSE
    /\ exit_status = -1

SpecCalc == CalcInit /\ [][Calculate]_vars

----------------------------------------------------------------------------
(* Vocabulary of the properties *)
Exited == pc = "exited"
SinkFailed == \E i \in 1..Len(commits) : commits[i].ret < 0
NoSignal == nsignals = 0
Brightnesses == [i \in 1..Len(commits) |-> commits[i].brightness]
DeviceBrightness ==
    IF commits = <<>> THEN orig_brightness ELSE Last(commits).brightness
ZeroCountdown ==
    countdown_str.kind = "null" \/ (countdown_str.kind = "float" /\ countdown_str.ns = 0)
PositiveCountdown == countdown_str.kind = "float" /\ countdown_str.ns > 0
LoopBodyPcs == {"nanosleep", "clock_gettime", "check_status", "interpolate"}
Intermediate(v) == v # orig_brightness /\ v # target_brightness

(* C1: a run that reached the fade loop and saw no sink failure leaves the *)
(* device at the original or at the target brightness, wherever signals    *)
(* were delivered.                                                         *)
C1_ExitAtOriginOrTarget ==
    (Exited /\ armed /\ ~SinkFailed)
        => DeviceBrightness \in {orig_brightness, target_brightness}

(* An interrupted fade: intermediate steps were committed, a signal came,  *)
(* and the run ended.                                                      *)
C1_Witness ==
    /\ Exited /\ armed /\ ~SinkFailed /\ received_signal
    /\ \E i \in 1..Len(commits) : Intermediate(commits[i].brightness)

(* C2: when the flag is raised before line 451 reads it and no commit      *)
(* fails, the run ends with the device at the original brightness: no      *)
(* commit at all, or a last commit of orig_brightness.                     *)
C2_SignalRestoresOrigin ==
    (Exited /\ flag_before_check /\ ~SinkFailed)
        => (commits = <<>> \/ Last(commits).brightness = orig_brightness)

(* A signal during the fade, after a step was committed: the last commit   *)
(* is the restoration.                                                     *)
C2_Witness ==
    /\ Exited /\ flag_before_check /\ ~SinkFailed
    /\ Len(commits) >= 2
    /\ Last(commits).site = "restore"
    /\ commits[Len(commits) - 1].brightness # orig_brightness

(* C3: once the flag is set no fade step is committed any more: a signal   *)
(* before any commit gives a run with no commit, and a signal after fade   *)
(* steps gives exactly one more commit, of orig_brightness.                *)
C3_NoFadeStepAfterSignal ==
    LET flagged == {i \in 1..Len(commits) : commits[i].flagged}
        unflagged == {i \in 1..Len(commits) : ~commits[i].flagged}
    IN  /\ ~SinkFailed => \A i \in flagged : commits[i].site # "fade"
        /\ (Exited /\ flag_before_check /\ ~SinkFailed)
              => IF unflagged = {}
                 THEN commits = <<>>
                 ELSE /\ Cardinality(flagged) = 1
                      /\ Last(commits).brightness = orig_brightness

(* C4: without signal or sink failure, for orig # target within [0, max]   *)
(* and a positive duration, the committed values move monotonically from   *)
(* orig towards target and stay between the two.                           *)
C4_MonotonicTowardsTarget ==
    (/\ armed /\ NoSignal /\ ~SinkFailed /\ PositiveCountdown
     /\ orig_brightness # target_brightness
     /\ target_brightness >= 0 /\ target_brightness <= max_brightness)
        => LET b == Brightnesses
               lo == IF orig_brightness < target_brightness
                     THEN orig_brightness ELSE target_brightness
               hi == IF orig_brightness < target_brightness
                     THEN target_brightness ELSE orig_brightness
           IN  /\ \A i \in 1..Len(b) : lo <= b[i] /\ b[i] <= hi
               /\ \A i \in 1..(Len(b) - 1) :
                     IF target_brightness < orig_brightness
                     THEN b[i + 1] <= b[i]
                     ELSE b[i + 1] >= b[i]

(* C5: without signal or sink failure, for orig # target and a positive    *)
(* duration, the run ends, and ends with a last commit of exactly target;  *)
(* at most one of its commits is the final step of lines 460-467.          *)
C5_EndsAtTarget ==
    /\ [](  (/\ Exited /\ armed /\ NoSignal /\ ~SinkFailed /\ PositiveCountdown
             /\ orig_brightness # target_brightness)
          => /\ commits # <<>>
             /\ Last(commits).brightness = target_brightness
             /\ \A i \in 1..(Len(commits) - 1) : commits[i].site = "fade")
    /\ <>Exited

(* A fade that stopped short of the target and needed the final step.      *)
C5_Witness ==
    /\ Exited /\ armed /\ NoSignal /\ ~SinkFailed /\ PositiveCountdown
    /\ orig_brightness # target_brightness
    /\ Len(commits) >= 2
    /\ Last(commits).site = "final"

(* C6: while a commit is in flight the flag does not change; a signal that *)
(* arrives then stays pending, and its handler runs when unblock_signals   *)
(* lifts the mask after the call has returned.                             *)
C6_SignalDeferredDuringCommit ==
    [][/\ pc = "sb_call" => received_signal' = received_signal
       /\ (pc \in {"sb_call", "sb_unblock"} /\ nsignals' > nsignals)
             => (sig_pending' /\ pc' = pc /\ commits' = commits)
       /\ sig_pending => (sig_pending' \/ (received_signal' /\ pc' = "sb_return"))
      ]_vars

(* The call has returned with a signal pending and the flag still clear.   *)
C6_Witness ==
    /\ pc = "sb_unblock" /\ sig_pending /\ ~received_signal
    /\ commits # <<>>

(* C7: a cancelled run in which no commit failed exits with status zero,   *)
(* whether or not a restoration commit was needed.                         *)
C7_CancellationIsSuccess ==
    (Exited /\ flag_before_check /\ ~SinkFailed) => exit_status = EXIT_SUCCESS

(* C8: a failed commit is the last commit of the run, and the run exits    *)
(* with a non-zero status.                                                 *)
C8_SinkFailureAborts ==
    /\ \A i \in 1..Len(commits) : commits[i].ret < 0 => i = Len(commits)
    /\ (Exited /\ SinkFailed) => exit_status # EXIT_SUCCESS
    /\ (SinkFailed /\ ~Exited) => pc \in {"sb_unblock", "sb_return", "finish"}

(* A fade step failed after an earlier one succeeded: the run ended with   *)
(* the device at an intermediate value.                                    *)
C8_Witness ==
    /\ Exited /\ Len(commits) >= 2
    /\ Last(commits).ret < 0 /\ Last(commits).site = "fade"
    /\ Intermediate(commits[Len(commits) - 1].brightness)

(* C9: when orig = target, a run without signal or sink failure commits    *)
(* nothing, whatever the duration.                                         *)
C9_NoCommitWhenAtTarget ==
    (armed /\ NoSignal /\ ~SinkFailed /\ orig_brightness = target_brightness)
        => commits = <<>>

(* C10: with a countdown of 0 (or none) the run never enters the sleep     *)
(* loop and, without signal or sink failure, issues exactly one commit,    *)
(* of target.                                                              *)
C10_ZeroDurationOneCommit ==
    /\ (ZeroCountdown /\ armed) => pc \notin LoopBodyPcs
    /\ (Exited /\ armed /\ ZeroCountdown /\ NoSignal /\ ~SinkFailed)
          => (Len(commits) = 1 /\ commits[1].brightness = target_brightness)

(* C10 as amended: ... issues no commit when target = orig, and otherwise  *)
(* exactly one commit, of target.                                          *)
C10_ZeroDurationAtMostOneCommit ==
    /\ (ZeroCountdown /\ armed) => pc \notin LoopBodyPcs
    /\ (Exited /\ armed /\ ZeroCountdown /\ NoSignal /\ ~SinkFailed)
          => IF orig_brightness = target_brightness
             THEN commits = <<>>
             ELSE /\ Len(commits) = 1
                  /\ commits[1].brightness = target_brightness
                  /\ commits[1].site = "final"

(* A run without countdown that had to change the brightness. *)
C10_Witness ==
    /\ Exited /\ armed /\ ZeroCountdown /\ NoSignal /\ ~SinkFailed
    /\ Len(commits) = 1
    /\ target_brightness # orig_brightness

(* Vocabulary of the properties of calculate_target_brightness *)
Calculated == pc \in {"countdown", "finish"}
Accepted == pc = "countdown"
Rejected == pc = "finish" /\ status < 0

(* C11: calculate_target_brightness succeeds only with a result within     *)
(* [0, max]; a resolved value below 0 or above max is rejected.            *)
C11_AcceptedTargetInRange ==
    Accepted => (0 <= target_brightness /\ target_brightness <= max_brightness)

(* The grammar of a brightness expression: an optional leading sign, a     *)
(* non-empty run of digits, an optional trailing percent sign.             *)
InGrammar(s) ==
    LET first == IF CharAt(s, 1) \in {"+", "-"} THEN 2 ELSE 1
        last == IF Len(s) >= first /\ s[Len(s)] = "%" THEN Len(s) - 1 ELSE Len(s)
    IN  last >= first /\ \A i \in first..last : isdigit(s[i])

(* C12: calculate_target_brightness returns an error for every string     *)
(* that is not in the grammar: empty digit run, a non-digit (a second sign *)
(* included) in the digit run, leading white space, misplaced markers.     *)
C12_OnlyGrammarAccepted ==
    (Calculated /\ ~InGrammar(brightness_str.chars)) => Rejected

(* C13: an unsigned percentage p% with p in 0..100 resolves to max*p/100,  *)
(* truncated, whatever the current brightness.                             *)
C13_PercentOfMax ==
    \A p \in 0..100 :
        (Calculated /\ brightness_str.chars = PercentStr(p))
            => /\ Accepted
               /\ target_brightness = (max_brightness * p) \div 100

(* A percentage whose exact value is not an integer was resolved. *)
C13_Witness ==
    \E p \in 0..100 :
        /\ Accepted /\ brightness_str.chars = PercentStr(p)
        /\ (max_brightness * p) % 100 # 0
        /\ target_brightness > 0
        /\ target_brightness # cur_brightness

(* C14: "+d" against current = b gives b + d when b + d <= max, and "-d"   *)
(* against that result gives b again.                                      *)
C14_DeltaRoundTrip ==
    \A d \in 0..MaxBrightness :
        (/\ Calculated /\ brightness_str.chars = PlusStr(d)
         /\ cur_brightness + d <= max_brightness)
            => /\ Accepted
               /\ target_brightness = cur_brightness + d
               /\ LET back == calculate_target_brightness(MinusStr(d),
                                  target_brightness, max_brightness, NUL)
                  IN  back.ret = 0 /\ back.res = cur_brightness

(* A positive delta was added to a positive base. *)
C14_Witness ==
    \E d \in 1..MaxBrightness :
        /\ Accepted /\ brightness_str.chars = PlusStr(d)
        /\ cur_brightness > 0
        /\ target_brightness = cur_brightness + d

(* C15: without a brightness argument the run prints the current and the   *)
(* maximum brightness and exits with status zero; it installs no handler,  *)
(* does not get to opening the bus and commits nothing.                    *)
C15_NoArgOnlyPrints ==
    ~brightness_str.given
        => /\ pc \in {"check_arg", "finish", "exited"}
           /\ ~armed
           /\ commits = <<>>
           /\ cur_brightness = orig_brightness
           /\ pc # "check_arg" => printed = <<orig_brightness, max_brightness>>
           /\ Exited => exit_status = EXIT_SUCCESS

C15_Witness ==
    /\ Exited /\ ~brightness_str.given
    /\ printed = <<orig_brightness, max_brightness>>

(* C16: every value the fade loop computes is the linear interpolation     *)
(* between orig and target at the elapsed time:                            *)
(* orig - elapsed * (orig - target) / total.                               *)
C16_InterpolatesToTarget ==
    LET millis_elapsed == timespec_diff_in_millis(current_time, start_time)
    IN  (pc = "interpolate" /\ millis_elapsed >= 0 /\ millis_elapsed < total_millis)
            => next_brightness(orig_brightness, millis_elapsed, total_millis)
               = orig_brightness
                 - CDiv(millis_elapsed * (orig_brightness - target_brightness),
                        total_millis)

(* C17: a commit is issued only for a value other than the last applied    *)
(* one: no two consecutive commits carry the same brightness and the first *)
(* commit is not orig.                                                     *)
C17_CommitsChangeTheValue ==
    \A i \in 1..Len(commits) :
        commits[i].brightness
            # (IF i = 1 THEN orig_brightness ELSE commits[i - 1].brightness)

(* Two fade steps and then the restoration or the final step. *)
C17_Witness ==
    /\ Exited /\ Len(commits) >= 3
    /\ Last(commits).site \in {"restore", "final"}

(* C18: the delay passed to nanosleep is SLEEP_MILLIS milliseconds.        *)
C18_DelayIsSleepMillis ==
    pc = "nanosleep"
        => /\ delay_ts.tv_sec = 0
           /\ delay_ts.tv_nsec = SLEEP_MILLIS * NANOSEC_PER_MILLISEC

(* C19: every brightness passed to the sink lies in [0, max_brightness].   *)
C19_CommitsInRange ==
    \A i \in 1..Len(commits) :
        0 <= commits[i].brightness /\ commits[i].brightness <= max_brightness

(* C20: the division by total_millis at line 440 is not reached with       *)
(* total_millis = 0: the test of line 437 breaks out of the loop first.    *)
C20_NoDivisionByZero ==
    (/\ pc = "interpolate"
     /\ ~(timespec_diff_in_millis(current_time, start_time) >= total_millis))
        => total_millis # 0

(* A countdown below one millisecond: the loop was entered with            *)
(* total_millis = 0 and stands at line 436.                                *)
C20_Witness ==
    /\ pc = "interpolate" /\ total_millis = 0
    /\ timespec_cmp(start_time, target_time) < 0

====
